---------------------------- MODULE Spec2Model ----------------------------
(***************************************************************************)
(* A model of vox_nav_control/common.hpp: the free functions that prepare  *)
(* the per-tick inputs of the MPC controller.                              *)
(*                                                                         *)
(*   nearestStateIndex                   (common.hpp 180-197)              *)
(*   getLocalInterpolatedReferenceStates (common.hpp 199-294)              *)
(*   trimObstaclesToN                    (common.hpp 351-396)              *)
(*   readjustGlobalPlanLocally           (common.hpp 409-540)              *)
(*                                                                         *)
(* Positions are integers (metres).  A distance is carried as its square,  *)
(* so that a comparison of two distances, and the truncation of a distance *)
(* to int, are exact.  Headings are integers in hundredths of a radian.    *)
(* C++ indices are 0-based: pose i of the code is traj[i + 1] here.        *)
(***************************************************************************)
EXTENDS Integers, Sequences, FiniteSets, TLC

VARIABLES
    reference_traj,    \* nav_msgs::msg::Path::poses, a sequence of [x, y, z, yaw]
    obstacle_tracks,   \* vox_nav_msgs::msg::ObjectArray::objects
    ret                \* the last call: its arguments, locals and outputs

vars == <<reference_traj, obstacle_tracks, ret>>

----------------------------------------------------------------------------
(* Bounds of the model. *)

\* longest reference path drawn in Init (the scenario path apart)
MaxLen == 3
\* largest horizon Parameters::N drawn
MaxN == 3
\* longest obstacle list drawn
MaxObs == 3
\* largest target count handed to trimObstaclesToN
MaxK == 3
\* largest look_ahead_waypints handed to readjustGlobalPlanLocally
MaxAhead == 2

----------------------------------------------------------------------------
(* Program constants. *)

\* int closest_state_distance = 10000.0;
InitClosestDistance == 10000
\* ghost_obstacle.pose.position.{x,y,z} = 20000.0
GhostPosition == 20000
\* ghost_obstacle.shape.dimensions.push_back(0.1), in tenths
GhostDimension == 1
\* if (std::abs(segment_orientation) > 0.4), in hundredths of a radian
RowTolerance == 40
\* M_PI, in hundredths of a radian
Pi == 314
\* Parameters::V_MAX(10.0)
V_MAX == 10
\* the range of int
INT_MAX == 2147483647
INT_MIN == -INT_MAX - 1

----------------------------------------------------------------------------
(* Arithmetic of the machine. *)

Abs(a) == IF a < 0 THEN -a ELSE a

\* int + int on a two's complement machine (a signed overflow wraps)
Add32(a, b) ==
    IF b > 0 /\ a > INT_MAX - b THEN (a + INT_MIN) + (b + INT_MIN)
    ELSE IF b < 0 /\ a < INT_MIN - b THEN ((a + INT_MAX) + 1) + ((b + INT_MAX) + 1)
    ELSE a + b

\* a < b for two size_t values, each carried as the signed value of its bits:
\* a negative number stands for the size_t above the signed range, so that
\* -1 is SIZE_MAX, which is what (size_t) of an int -1 and what 0 - 1 are.
ULess(a, b) == IF (a < 0) = (b < 0) THEN a < b ELSE b < 0

\* (int) of a finite quotient num / den, den > 0: truncation toward zero
TruncDiv(num, den) == IF num >= 0 THEN num \div den ELSE -((-num) \div den)

\* std::fmod(a, b) for b > 0: the remainder with the sign of a
Fmod(a, b) == IF a >= 0 THEN a % b ELSE -((-a) % b)

RECURSIVE ISqrtIn(_, _, _)
ISqrtIn(n, lo, hi) ==
    IF lo >= hi THEN lo
    ELSE LET mid == (lo + hi + 1) \div 2
         IN  IF mid * mid <= n THEN ISqrtIn(n, mid, hi) ELSE ISqrtIn(n, lo, mid - 1)

\* (int) std::sqrt(n) for n >= 0
ISqrt(n) == ISqrtIn(n, 0, 46340)

\* vox_nav_utilities::getEuclidianDistBetweenPoses / ...Points, squared:
\* the planar Euclidean distance of two positions
Dist2(a, b) == (a.x - b.x) * (a.x - b.x) + (a.y - b.y) * (a.y - b.y)

----------------------------------------------------------------------------
(* nearestStateIndex, common.hpp 180-197 *)

\* curr_distance < closest_state_distance: a double against an int c >= 0,
\* the double being sqrt(d2)
LessThanClosest(d2, c) == d2 < c * c

\* the scan from pose i on, with the index and the (int) distance kept so far
RECURSIVE NearestScan(_, _, _, _, _)
NearestScan(traj, pose, i, closest_state_index, closest_state_distance) ==
    IF i >= Len(traj) THEN closest_state_index
    ELSE LET curr_distance2 == Dist2(traj[i + 1], pose)
         IN  IF LessThanClosest(curr_distance2, closest_state_distance)
             THEN NearestScan(traj, pose, i + 1, i, ISqrt(curr_distance2))
             ELSE NearestScan(traj, pose, i + 1,
                              closest_state_index, closest_state_distance)

nearestStateIndex(traj, pose) == NearestScan(traj, pose, 0, -1, InitClosestDistance)

----------------------------------------------------------------------------
(* getLocalInterpolatedReferenceStates, common.hpp 199-294 *)

\* path_euclidian_length: the sum over i = 1 .. size-1 of the distance between
\* poses i and i-1.  Every path drawn for this function has axis-parallel
\* segments, whose length ISqrt gives exactly (see SegmentsExact).
RECURSIVE PathLength(_, _)
PathLength(traj, i) ==
    IF i >= Len(traj) THEN 0
    ELSE ISqrt(Dist2(traj[i + 1], traj[i])) + PathLength(traj, i + 1)

\* the arc length divided by the number of segments, size - 1
StepSize_Mutant(traj) ==
    IF Len(traj) <= 1 THEN [kind |-> "nan", num |-> 0, den |-> 0]
    ELSE [kind |-> "finite", num |-> PathLength(traj, 1), den |-> Len(traj) - 1]

\* interpolation_step_size = path_euclidian_length / reference_traj.poses.size()
\* as a double: 0.0 / 0 is NaN
StepSize(traj) ==
    IF Len(traj) = 0 THEN [kind |-> "nan", num |-> 0, den |-> 0]
    ELSE [kind |-> "finite", num |-> PathLength(traj, 1), den |-> Len(traj)]

\* global_plan_look_ahead_distance / interpolation_step_size as a double
Quotient(la, step) ==
    IF step.kind = "nan" THEN [kind |-> "nan", num |-> 0, den |-> 0]
    ELSE IF step.num = 0
         THEN [kind |-> IF la > 0 THEN "inf" ELSE IF la < 0 THEN "-inf" ELSE "nan",
               num |-> la, den |-> 0]
         ELSE [kind |-> "finite", num |-> la * step.den, den |-> step.num]

\* int states_to_see_horizon = <double>: the conversion of a value outside the
\* range of int is undefined; cvttsd2si gives INT_MIN, a saturating conversion
\* gives INT_MAX, INT_MIN and 0 for +inf, -inf and NaN.
ToInt(q) ==
    CASE q.kind = "finite" -> {TruncDiv(q.num, q.den)}
      [] q.kind = "inf"    -> {INT_MIN, INT_MAX}
      [] q.kind = "-inf"   -> {INT_MIN}
      [] q.kind = "nan"    -> {INT_MIN, 0}

\* lines 229-232: the candidate local goal and its clamp; the comparison is
\* of size_t values, and poses.size() - 1 is SIZE_MAX for an empty path
LocalGoal(nearest, states, size) ==
    LET candidate == Add32(nearest, states)
    IN  IF ~ULess(candidate, size - 1) THEN size - 1 ELSE candidate

\* reference_traj.poses[i]: a read outside the vector gives whatever is there
PoseAt(traj, i, garbage) == IF i \in 0 .. Len(traj) - 1 THEN traj[i + 1] ELSE garbage

\* ompl::geometric::PathGeometric::interpolate(count) on a path of two states:
\* nothing is done when count < 2; otherwise the first state, count - 2 states
\* between the two, and the last state.  State k is named by its anchors and
\* its place k / (count - 1) on the curve between them.
Interpolate(first, last, count) ==
    IF count < 2 THEN << [from |-> first, to |-> last, num |-> 0, den |-> 1],
                         [from |-> first, to |-> last, num |-> 1, den |-> 1] >>
    ELSE [k \in 1 .. count |->
            [from |-> first, to |-> last, num |-> k - 1, den |-> count - 1]]

\* lines 281-292: the States filled from the interpolated path
ToStates(path, v_max) == [k \in 1 .. Len(path) |-> [at |-> path[k], v |-> v_max]]

\* The whole call.  conv is the outcome of the double -> int conversion,
\* garbage what a read outside the vector yields, survives whether the process
\* outlives such a read.
GetLocalInterpolatedReferenceStates(pose, N, la, traj, conv, garbage, survives) ==
    LET nearsest_traj_state_index == nearestStateIndex(traj, pose)
        interpolation_step_size == StepSize(traj)
        quotient == Quotient(la, interpolation_step_size)
        states_to_see_horizon == conv
        local_goal_state_index ==
            LocalGoal(nearsest_traj_state_index, states_to_see_horizon, Len(traj))
        from_robot ==
            Add32(local_goal_state_index, -nearsest_traj_state_index) < N
        first == IF from_robot
                 THEN [x |-> pose.x, y |-> pose.y, yaw |-> pose.yaw]
                 ELSE LET p == PoseAt(traj, nearsest_traj_state_index, garbage)
                      IN  [x |-> p.x, y |-> p.y, yaw |-> p.yaw]
        goal == PoseAt(traj, local_goal_state_index, garbage)
        last == [x |-> goal.x, y |-> goal.y, yaw |-> goal.yaw]
        indexed == (IF from_robot THEN {} ELSE {nearsest_traj_state_index})
                     \cup {local_goal_state_index}
        crashed == ~(indexed \subseteq 0 .. Len(traj) - 1) /\ ~survives
    IN  [op |-> "interp", pose |-> pose, N |-> N, la |-> la,
         nearest |-> nearsest_traj_state_index,
         step |-> interpolation_step_size,
         quotient |-> quotient,
         states |-> states_to_see_horizon,
         local_goal |-> local_goal_state_index,
         indexed |-> indexed,
         outcome |-> IF crashed THEN "crashed" ELSE "returned",
         out |-> IF crashed THEN <<>>
                 ELSE ToStates(Interpolate(first, last, N), V_MAX)]

----------------------------------------------------------------------------
(* trimObstaclesToN, common.hpp 351-396 *)

\* vox_nav_msgs::msg::Object ghost_obstacle, lines 363-370: a default Object
\* (id 0, is_dynamic false) given the position and the box shape
GhostObstacle ==
    [id |-> 0, x |-> GhostPosition, y |-> GhostPosition, z |-> GhostPosition,
     shape |-> "BOX", dimensions |-> <<GhostDimension, GhostDimension, GhostDimension>>,
     is_dynamic |-> FALSE]

\* the padding loop run once too often (i <= N - size)
PadWithGhosts_Mutant(objects, N) ==
    objects \o [i \in 1 .. (N - Len(objects)) + 1 |-> GhostObstacle]

\* lines 362-372: the list with N - size ghosts pushed after it
PadWithGhosts(objects, N) ==
    objects \o [i \in 1 .. N - Len(objects) |-> GhostObstacle]

\* lines 377-383: distances[i], squared
Distances2(objects, pose) == [i \in 1 .. Len(objects) |-> Dist2(objects[i], pose)]

\* lines 385-388: what std::sort may leave in sorted_indices: any permutation
\* of 0 .. n-1 that the comparator distances[a] < distances[b] finds in order.
\* std::sort is not a stable sort: the order of equal distances is unspecified.
SortOutcomes(distances2) ==
    LET n == Len(distances2)
    IN  { p \in [1 .. n -> 0 .. n - 1] :
            /\ \A i, j \in 1 .. n : i # j => p[i] # p[j]
            /\ \A i, j \in 1 .. n :
                 i < j => ~(distances2[p[j] + 1] < distances2[p[i] + 1]) }

\* lines 390-392: the N first of the sorted indices
TakeNearest(objects, sorted_indices, N) ==
    [i \in 1 .. N |-> objects[sorted_indices[i] + 1]]

\* The whole call; sorted_indices is the outcome of std::sort (used by the
\* else branch alone).
TrimObstaclesToN(objects, pose, N, sorted_indices) ==
    IF Len(objects) < N
    THEN PadWithGhosts(objects, N)
    ELSE TakeNearest(objects, sorted_indices, N)

----------------------------------------------------------------------------
(* readjustGlobalPlanLocally, common.hpp 409-540 *)

\* lines 426-430: the local goal and its clamp (a comparison of size_t values)
RowLocalGoal(nearest, look_ahead_waypints, size) ==
    LET candidate == Add32(nearest, look_ahead_waypints)
    IN  IF ULess(size - 1, candidate) THEN size - 1 ELSE candidate

\* slice(v, m, n), lines 330-338: the elements m .. n of v; the iterators are
\* valid when 0 <= m <= n + 1 <= size
SliceValid(traj, m, n) == 0 <= m /\ m <= n + 1 /\ n + 1 <= Len(traj)

Slice(traj, m, n, garbage) ==
    [k \in 1 .. (n - m + 1) |-> PoseAt(traj, m + k - 1, garbage)]

\* the tolerance compared with >= instead of >
NotInRow_Mutant(p) == Abs(Fmod(p.yaw, Pi)) >= RowTolerance

\* lines 443-444: the segment is not in a row
NotInRow(p) == Abs(Fmod(p.yaw, Pi)) > RowTolerance

\* lines 449-476: the corners of the crop box
CropMin(robot_yaw, near, goal, inflate_y, inflate_z) ==
    LET c == IF Abs(robot_yaw) < RowTolerance THEN near ELSE goal
    IN  [x |-> c.x, y |-> c.y - inflate_y, z |-> c.z - inflate_z]

CropMax(robot_yaw, near, goal, inflate_y, inflate_z) ==
    LET c == IF Abs(robot_yaw) < RowTolerance THEN goal ELSE near
    IN  [x |-> c.x, y |-> c.y + inflate_y, z |-> c.z + inflate_z]

\* vox_nav_utilities::cropBox: the points of the cloud inside the box
CropBox(cloud, min, max) ==
    { p \in cloud : /\ min.x <= p.x /\ p.x <= max.x
                    /\ min.y <= p.y /\ p.y <= max.y
                    /\ min.z <= p.z /\ p.z <= max.z }

\* the sums of the y and of the z of the points of a cloud
RECURSIVE SumY(_)
SumY(S) == IF S = {} THEN 0 ELSE LET p == CHOOSE q \in S : TRUE IN p.y + SumY(S \ {p})

RECURSIVE SumZ(_)
SumZ(S) == IF S = {} THEN 0 ELSE LET p == CHOOSE q \in S : TRUE IN p.z + SumZ(S \ {p})

\* lines 483-484: pcl::PointXYZ center is (0, 0, 0) as constructed, and
\* pcl::computeCentroid leaves it so when the cloud has no point; otherwise
\* the mean of the points (the clouds drawn have integer means)
ComputeCentroid(cloud) ==
    IF cloud = {} THEN [y |-> 0, z |-> 0]
    ELSE [y |-> SumY(cloud) \div Cardinality(cloud),
          z |-> SumZ(cloud) \div Cardinality(cloud)]

\* lines 495-499: pose i moved onto the centroid
Recenter(p, center) ==
    LET dy == p.y - center.y
        dz == p.z - center.z
    IN  [p EXCEPT !.y = p.y - dy, !.z = p.z - dz]

\* lines 494-510: the poses nearest .. local_goal recentred in place
RecenterSlice(traj, nearest, local_goal, center) ==
    [k \in 1 .. Len(traj) |->
        IF nearest <= k - 1 /\ k - 1 < local_goal + 1
        THEN Recenter(traj[k], center) ELSE traj[k]]

\* lines 493-510: readjusted_states
ReadjustedStates(traj, nearest, local_goal, center, garbage) ==
    [k \in 1 .. (local_goal - nearest + 1) |->
        LET p == Recenter(PoseAt(traj, nearest + k - 1, garbage), center)
        IN  [x |-> p.x, y |-> p.y, z |-> p.z, psi |-> p.yaw, v |-> 0]]

\* The whole call: the path it leaves and what it did.  garbage is what a
\* read outside the vector yields, survives whether the process outlives it.
ReadjustGlobalPlanLocally(pose, cloud, inflate_y, inflate_z, look_ahead_waypints, traj, garbage, survives) ==
    LET nearsest_traj_state_index == nearestStateIndex(traj, pose)
        local_goal_state_index ==
            RowLocalGoal(nearsest_traj_state_index, look_ahead_waypints, Len(traj))
        valid == SliceValid(traj, nearsest_traj_state_index, local_goal_state_index)
        poses_in_vicinity ==
            Slice(traj, nearsest_traj_state_index, local_goal_state_index, garbage)
        not_in_row == \E k \in 1 .. Len(poses_in_vicinity) : NotInRow(poses_in_vicinity[k])
        near == PoseAt(traj, nearsest_traj_state_index, garbage)
        goal == PoseAt(traj, local_goal_state_index, garbage)
        min == CropMin(pose.yaw, near, goal, inflate_y, inflate_z)
        max == CropMax(pose.yaw, near, goal, inflate_y, inflate_z)
        croppped_live_cloud == CropBox(cloud, min, max)
        center == ComputeCentroid(croppped_live_cloud)
        call == [op |-> "readjust", pose |-> pose, cloud |-> cloud,
                 look_ahead_waypints |-> look_ahead_waypints,
                 nearest |-> nearsest_traj_state_index,
                 local_goal |-> local_goal_state_index,
                 before |-> traj]
        nothing == [cropped |-> {}, min |-> [x |-> 0, y |-> 0, z |-> 0],
                    max |-> [x |-> 0, y |-> 0, z |-> 0],
                    markers |-> <<>>, marker_published |-> FALSE,
                    cloud_published |-> FALSE]
    IN  IF ~valid /\ ~survives
        THEN [traj |-> traj,
              ret |-> call @@ nothing @@ [outcome |-> "crashed", recentered |-> FALSE]]
        ELSE IF not_in_row
        THEN [traj |-> traj,
              ret |-> call @@ nothing @@ [outcome |-> "not_in_row", recentered |-> FALSE]]
        ELSE [traj |-> RecenterSlice(traj, nearsest_traj_state_index,
                                     local_goal_state_index, center),
              ret |-> call @@
                      [cropped |-> croppped_live_cloud, min |-> min, max |-> max,
                       markers |-> ReadjustedStates(traj, nearsest_traj_state_index,
                                                    local_goal_state_index, center, garbage),
                       marker_published |-> TRUE, cloud_published |-> TRUE,
                       outcome |-> "readjusted", recentered |-> TRUE]]

----------------------------------------------------------------------------
(* The inputs drawn. *)

\* what a read outside the vector may yield
GarbagePoses == { [x |-> 7, y |-> 7, z |-> 7, yaw |-> h] : h \in {0, 120} }

\* Reference paths for the horizon computation: from the origin, each next
\* pose on the previous one or one axis-parallel step away.
Steps == { <<0, 0>>, <<1, 0>>, <<0, 1>>, <<2, 0>> }

RECURSIVE PathsOfLen(_)
PathsOfLen(n) ==
    IF n = 0 THEN { <<>> }
    ELSE IF n = 1 THEN { << [x |-> 0, y |-> 0, z |-> 0, yaw |-> 0] >> }
    ELSE { Append(p, [x |-> p[n - 1].x + s[1], y |-> p[n - 1].y + s[2],
                      z |-> 0, yaw |-> 0]) : p \in PathsOfLen(n - 1), s \in Steps }

\* the straight path of 11 poses spaced 1 apart along +x, heading 0
ScenarioPath == [k \in 1 .. 11 |-> [x |-> k - 1, y |-> 0, z |-> 0, yaw |-> 0]]

HorizonPaths == UNION { PathsOfLen(n) : n \in 0 .. MaxLen } \cup { ScenarioPath }

\* robot poses near the path, and one more than 10000 away from all of it
RobotPoses ==
    { [x |-> px, y |-> py, yaw |-> 0] : px \in {0, 1, 2}, py \in {0, 1} }
      \cup { [x |-> 20000, y |-> 0, yaw |-> 0] }

\* global_plan_look_ahead_distance
LookAheadDistances == {-1, 0, 1, 2, 5}

\* Parameters::N
Horizons == 1 .. MaxN

\* Obstacle lists: the i-th record has id i; (1,0) and (0,1) are at the same
\* distance from the origin.
ObstaclePositions == { <<1, 0>>, <<0, 1>>, <<2, 0>> }

ObstacleAt(i, pos, dyn) ==
    [id |-> i, x |-> pos[1], y |-> pos[2], z |-> 0,
     shape |-> "CYLINDER", dimensions |-> <<5, 5>>, is_dynamic |-> dyn]

ObstacleListsOfLen(n) ==
    { [i \in 1 .. n |-> ObstacleAt(i, f[i][1], f[i][2])] :
        f \in [1 .. n -> ObstaclePositions \X BOOLEAN] }

ObstacleLists == UNION { ObstacleListsOfLen(n) : n \in 0 .. MaxObs }

TrimPoses == { [x |-> 0, y |-> 0, yaw |-> 0], [x |-> 1, y |-> 0, yaw |-> 0] }

TargetCounts == 0 .. MaxK

\* Row paths: along +x, one apart, every pose with its own heading.
RowHeadings == {0, 40, 120, -120}

RowPathsOfLen(n) ==
    { [k \in 1 .. n |-> [x |-> k - 1, y |-> y0, z |-> 2, yaw |-> h[k]]] :
        y0 \in {0, 2}, h \in [1 .. n -> RowHeadings] }

RowPaths == UNION { RowPathsOfLen(n) : n \in 0 .. MaxLen }

RowRobotPoses ==
    { [x |-> px, y |-> 0, yaw |-> h] : px \in {0, 2}, h \in {0, 314} }
      \cup { [x |-> 20000, y |-> 0, yaw |-> 0] }

\* Live clouds: the subsets of two points (their means are integers in y, z).
Clouds == SUBSET { [x |-> 0, y |-> 0, z |-> 2], [x |-> 2, y |-> 2, z |-> 4] }

\* <<inflate_y_cropping, inflate_z_cropping>>
Inflations == { <<0, 0>>, <<1, 1>> }

LookAheadWaypoints == 0 .. MaxAhead

----------------------------------------------------------------------------
(* The calls.  A call is made when the caller holds no result; the caller  *)
(* then takes the result, and the next call can be made.                   *)

Idle == [op |-> "idle"]

\* the caller takes the result of the last call
TakeResult ==
    /\ ret.op # "idle"
    /\ ret' = Idle
    /\ UNCHANGED <<reference_traj, obstacle_tracks>>

\* a call of nearestStateIndex on the reference path
NearestStateIndexCall ==
    /\ ret.op = "idle"
    /\ \E pose \in RobotPoses :
          ret' = [op |-> "nearest", pose |-> pose,
                  index |-> nearestStateIndex(reference_traj, pose)]
    /\ UNCHANGED <<reference_traj, obstacle_tracks>>

\* the indices getLocalInterpolatedReferenceStates uses for this call
InterpolateIndexed(pose, N, conv) ==
    LET nearest == nearestStateIndex(reference_traj, pose)
        goal == LocalGoal(nearest, conv, Len(reference_traj))
    IN  (IF Add32(goal, -nearest) < N THEN {} ELSE {nearest}) \cup {goal}

\* a call of getLocalInterpolatedReferenceStates on the reference path
InterpolateCall ==
    /\ ret.op = "idle"
    /\ \E pose \in RobotPoses, N \in Horizons, la \in LookAheadDistances :
        \E conv \in ToInt(Quotient(la, StepSize(reference_traj))) :
          LET in_range == InterpolateIndexed(pose, N, conv)
                              \subseteq 0 .. Len(reference_traj) - 1
          IN  \E garbage \in IF in_range THEN {CHOOSE g \in GarbagePoses : TRUE}
                                         ELSE GarbagePoses,
                 survives \in IF in_range THEN {TRUE} ELSE BOOLEAN :
                  ret' = GetLocalInterpolatedReferenceStates(
                             pose, N, la, reference_traj, conv, garbage, survives)
    /\ UNCHANGED <<reference_traj, obstacle_tracks>>

\* a call of trimObstaclesToN on the tracked obstacles
TrimCall ==
    /\ ret.op = "idle"
    /\ \E pose \in TrimPoses, N \in TargetCounts :
        \E sorted_indices \in
              IF Len(obstacle_tracks) < N THEN { <<>> }
              ELSE SortOutcomes(Distances2(obstacle_tracks, pose)) :
          ret' = [op |-> "trim", pose |-> pose, N |-> N,
                  source |-> obstacle_tracks,
                  out |-> TrimObstaclesToN(obstacle_tracks, pose, N, sorted_indices)]
    /\ UNCHANGED <<reference_traj, obstacle_tracks>>

\* a tick of readjustGlobalPlanLocally: the one writer of the reference path
ReadjustCall ==
    /\ ret.op = "idle"
    /\ \E pose \in RowRobotPoses, cloud \in Clouds, inflate \in Inflations,
          look_ahead_waypints \in LookAheadWaypoints :
          LET nearest == nearestStateIndex(reference_traj, pose)
              in_range == SliceValid(reference_traj, nearest,
                              RowLocalGoal(nearest, look_ahead_waypints,
                                           Len(reference_traj)))
          IN  \E garbage \in IF in_range THEN {CHOOSE g \in GarbagePoses : TRUE}
                                         ELSE GarbagePoses,
                 survives \in IF in_range THEN {TRUE} ELSE BOOLEAN :
                  LET r == ReadjustGlobalPlanLocally(pose, cloud, inflate[1], inflate[2],
                               look_ahead_waypints, reference_traj, garbage, survives)
                  IN  /\ reference_traj' = r.traj
                      /\ ret' = r.ret
    /\ UNCHANGED obstacle_tracks

----------------------------------------------------------------------------
(* The specifications. *)

\* the horizon window and the reference interpolation, on a path as planned
Init ==
    /\ reference_traj \in HorizonPaths
    /\ obstacle_tracks = <<>>
    /\ ret = Idle

Next == NearestStateIndexCall \/ InterpolateCall \/ TakeResult

Spec == Init /\ [][Next]_vars

\* the obstacle set normalisation
InitTrim ==
    /\ reference_traj = <<>>
    /\ obstacle_tracks \in ObstacleLists
    /\ ret = Idle

NextTrim == TrimCall \/ TakeResult

SpecTrim == InitTrim /\ [][NextTrim]_vars

\* the row alignment correction, tick after tick
InitReadjust ==
    /\ reference_traj \in RowPaths
    /\ obstacle_tracks = <<>>
    /\ ret = Idle

NextReadjust == ReadjustCall \/ TakeResult

SpecReadjust == InitReadjust /\ [][NextReadjust]_vars

----------------------------------------------------------------------------
(* What the inputs drawn keep exact. *)

\* every segment of the reference path has an integer length (under Spec)
SegmentsExact ==
    \A i \in 1 .. Len(reference_traj) - 1 :
        LET d2 == Dist2(reference_traj[i + 1], reference_traj[i])
        IN  ISqrt(d2) * ISqrt(d2) = d2

\* every centroid computed is an integer point in y and z (under SpecReadjust)
CentroidExact ==
    (ret.op = "readjust" /\ ret.cropped # {}) =>
        /\ SumY(ret.cropped) % Cardinality(ret.cropped) = 0
        /\ SumZ(ret.cropped) % Cardinality(ret.cropped) = 0

----------------------------------------------------------------------------
(* The claims. *)

\* C1: for a path of at least 2 poses and N >= 2, whatever the robot pose and
\* the lookahead distance, getLocalInterpolatedReferenceStates returns exactly
\* N states and indexes the path within 0 .. len-1 only.
C1_ExactlyNStatesInRange ==
    (ret.op = "interp" /\ Len(reference_traj) >= 2 /\ ret.N >= 2) =>
        /\ ret.outcome = "returned"
        /\ Len(ret.out) = ret.N
        /\ ret.indexed \subseteq 0 .. Len(reference_traj) - 1

\* C2: with fewer obstacles than the target count K, trimObstaclesToN returns
\* exactly K records: the source list in its order, then K - |L| ghosts at
\* (20000, 20000, 20000) with a 0.1 box shape and no dynamic flag; the source
\* list is as it was.
C2_PaddedWithGhosts ==
    (ret.op = "trim" /\ Len(ret.source) < ret.N) =>
        /\ Len(ret.out) = ret.N
        /\ \A i \in 1 .. Len(ret.source) : ret.out[i] = ret.source[i]
        /\ \A i \in Len(ret.source) + 1 .. Len(ret.out) :
              /\ ret.out[i].x = 20000 /\ ret.out[i].y = 20000 /\ ret.out[i].z = 20000
              /\ ret.out[i].shape = "BOX"
              /\ ret.out[i].dimensions = <<1, 1, 1>>
              /\ ret.out[i].is_dynamic = FALSE
        /\ obstacle_tracks = ret.source

\* C2's case: one real obstacle padded with two ghosts
C2_Witness ==
    /\ ret.op = "trim" /\ Len(ret.source) = 1 /\ ret.N = 3
    /\ ret.out[1].id = 1 /\ ret.out[3].id = 0

\* the key std::stable_sort orders by: the distance, then the place in the list
StableBefore(a, b, pose) ==
    \/ Dist2(a, pose) < Dist2(b, pose)
    \/ Dist2(a, pose) = Dist2(b, pose) /\ a.id < b.id

\* C3: with at least K obstacles, trimObstaclesToN returns exactly the K
\* nearest to the current pose in ascending distance, obstacles at the same
\* distance in their original order (the result of a stable sort).
C3_NearestInStableOrder ==
    (ret.op = "trim" /\ Len(ret.source) >= ret.N) =>
        /\ Len(ret.out) = ret.N
        /\ \A i \in 1 .. Len(ret.out) :
              \E k \in 1 .. Len(ret.source) : ret.out[i] = ret.source[k]
        /\ \A i, j \in 1 .. Len(ret.out) :
              i < j => StableBefore(ret.out[i], ret.out[j], ret.pose)
        /\ \A k \in 1 .. Len(ret.source) :
              (\A i \in 1 .. Len(ret.out) : ret.out[i] # ret.source[k]) =>
                  \A i \in 1 .. Len(ret.out) :
                      StableBefore(ret.out[i], ret.source[k], ret.pose)

\* C4: on a non-empty path nearestStateIndex returns an index within the path,
\* of a pose at the least distance to the robot, and the first such index.
C4_NearestIsFirstMinimum ==
    (ret.op = "nearest" /\ Len(reference_traj) >= 1) =>
        /\ ret.index \in 0 .. Len(reference_traj) - 1
        /\ \A j \in 1 .. Len(reference_traj) :
              Dist2(reference_traj[ret.index + 1], ret.pose)
                  <= Dist2(reference_traj[j], ret.pose)
        /\ \A j \in 1 .. ret.index :
              Dist2(reference_traj[ret.index + 1], ret.pose)
                  < Dist2(reference_traj[j], ret.pose)

\* C5: on a path of fewer than 2 poses getLocalInterpolatedReferenceStates
\* ends in InsufficientPath: no reference state, and the path never indexed.
C5_InsufficientPath ==
    (ret.op = "interp" /\ Len(reference_traj) < 2) =>
        /\ ret.outcome = "InsufficientPath"
        /\ ret.out = <<>>
        /\ ret.indexed = {}

\* C6: when the average spacing (arc length / point count) is not positive,
\* nothing is divided by it and the local goal is the last index, len - 1.
C6_SpacingGuarded ==
    (ret.op = "interp" /\ ret.step.kind = "finite" /\ ret.step.num <= 0) =>
        /\ ret.quotient.kind = "none"
        /\ ret.local_goal = Len(reference_traj) - 1

\* the poses of the slice [nearest, local goal] that the path holds
SliceIndices == { i \in ret.nearest .. ret.local_goal : i \in 0 .. Len(ret.before) - 1 }

\* a pose of the slice has |heading mod pi| > 0.4 rad
SliceOutOfRow ==
    \E i \in SliceIndices :
        LET h == ret.before[i + 1].yaw
            m == IF h >= 0 THEN h % 314 ELSE -((-h) % 314)
        IN  m > 40 \/ m < -40

\* C7: when a pose of the slice [nearest, local goal] has |heading mod pi| >
\* 0.4 rad, readjustGlobalPlanLocally returns with the path as it was and
\* nothing published; when every heading of the slice is within the tolerance
\* it goes on to the crop and the recentering.
C7_RowCheck ==
    (ret.op = "readjust") =>
        /\ SliceOutOfRow =>
              /\ reference_traj = ret.before
              /\ ~ret.marker_published /\ ~ret.cloud_published
              /\ ~ret.recentered
        /\ (ret.nearest >= 0 /\ ~SliceOutOfRow) =>
              /\ ret.recentered
              /\ ret.marker_published /\ ret.cloud_published
              /\ \A i \in SliceIndices :
                    /\ reference_traj[i + 1].y = ComputeCentroid(ret.cropped).y
                    /\ reference_traj[i + 1].z = ComputeCentroid(ret.cropped).z

\* C7's case: a slice whose first pose is in the row and whose second is not
C7_Witness ==
    /\ ret.op = "readjust" /\ ret.nearest = 0 /\ ret.local_goal >= 1
    /\ ret.before[1].yaw = 0 /\ ret.before[2].yaw = 120
    /\ ret.outcome = "not_in_row"

\* C8: when the cropped cloud has no point the recentering is skipped: every
\* pose has the y and z it had before the call.
C8_EmptyCropLeavesPoses ==
    (ret.op = "readjust" /\ ret.outcome = "readjusted" /\ ret.cropped = {}) =>
        \A i \in 1 .. Len(reference_traj) :
            /\ reference_traj[i].y = ret.before[i].y
            /\ reference_traj[i].z = ret.before[i].z

\* the call of the scenario: the straight path of 11 poses 1 apart along +x,
\* the robot at the origin, lookahead distance 5
ScenarioCall ==
    /\ ret.op = "interp" /\ reference_traj = ScenarioPath
    /\ ret.pose = [x |-> 0, y |-> 0, yaw |-> 0] /\ ret.la = 5

\* C9 as stated: in the scenario the nearest index is 0, the average spacing
\* 1.0, the lookahead waypoint count 5 and the local goal index 5.
C9_ScenarioSpacingOne ==
    ScenarioCall =>
        /\ ret.nearest = 0
        /\ ret.step.kind = "finite" /\ ret.step.num = ret.step.den
        /\ ret.states = 5
        /\ ret.local_goal = 5

\* C9 amended: in the scenario the nearest index is 0, the average spacing is
\* 10/11 (arc length 10 over 11 poses), the lookahead waypoint count 5 and
\* the local goal index 5.
C9_ScenarioSpacingTenElevenths ==
    ScenarioCall =>
        /\ ret.nearest = 0
        /\ ret.step.kind = "finite" /\ ret.step.num = 10 /\ ret.step.den = 11
        /\ ret.states = 5
        /\ ret.local_goal = 5

\* C9's case: the scenario's call has returned its reference states
C9_Witness ==
    /\ ScenarioCall
    /\ ret.N = 3 /\ ret.outcome = "returned" /\ Len(ret.out) = 3
    /\ ret.indexed = {0, 5}

\* C10: a tick of readjustGlobalPlanLocally on a non-empty path keeps the
\* number of poses and every pose's x and orientation, its slice satisfies
\* 0 <= nearest <= local goal <= len - 1, and the y and z of a pose change
\* only inside that slice.
C10_OnlyTheSliceMoves ==
    (ret.op = "readjust" /\ Len(ret.before) >= 1) =>
        /\ Len(reference_traj) = Len(ret.before)
        /\ \A i \in 1 .. Len(ret.before) :
              /\ reference_traj[i].x = ret.before[i].x
              /\ reference_traj[i].yaw = ret.before[i].yaw
        /\ 0 <= ret.nearest /\ ret.nearest <= ret.local_goal
        /\ ret.local_goal <= Len(ret.before) - 1
        /\ \A i \in 1 .. Len(ret.before) :
              (reference_traj[i].y # ret.before[i].y
                 \/ reference_traj[i].z # ret.before[i].z)
                  => (ret.nearest <= i - 1 /\ i - 1 <= ret.local_goal)

\* C11: whenever the alignment check passes (on a slice within the path), the
\* crop box built is not inverted: min <= max in x, y and z, in both branches
\* of the vehicle heading test and for inflation margins >= 0.
C11_CropBoxNotInverted ==
    (ret.op = "readjust" /\ ret.outcome = "readjusted" /\ ret.nearest >= 0) =>
        /\ ret.min.x <= ret.max.x
        /\ ret.min.y <= ret.max.y
        /\ ret.min.z <= ret.max.z

=============================================================================
